---- MODULE Spec2Model ----
(***************************************************************************)
(* Model of tensorflow_datasets/text/imdb.py: the IMDBReviews builder.     *)
(*                                                                         *)
(*   _split_generators   download, vocabulary bootstrap, split descriptors *)
(*   _vocab_text_gen     the Vocabulary Feeder (generator)                 *)
(*   _generate_examples  the Example Generator (generator)                 *)
(*                                                                         *)
(* A Python generator is modelled as an object with a status and a         *)
(* position; one pull (next()) runs its body up to the next yield, to the  *)
(* end (StopIteration) or to an exception, and is one action.  Strings are *)
(* sequences of characters, paths are sequences of components.             *)
(***************************************************************************)
EXTENDS Integers, Sequences, FiniteSets, TLC

(***************************************************************************)
(* Bounds of the model.                                                    *)
(***************************************************************************)
\* Number of entries in the label directories of a split directory.  The
\* corpora checked have a test directory that holds the entries of the
\* training directory with the two label directories exchanged.
MaxFiles == 2
\* Number of _generate_examples invocations made by the framework after
\* _split_generators has returned (the Feeder's invocation comes on top).
MaxRuns == 2

(***************************************************************************)
(* Inputs: extraction roots, file contents.                                *)
(***************************************************************************)
Roots == {"/tmp/dl1", "/tmp/dl2"}

Whitespace == {" ", "\n", "\t"}

\* Sample file contents: text with surrounding and inner whitespace, text
\* that is already stripped.
Contents == { <<" ", "a", " ", "b", "\n">>, <<"a", "b">> }

\* A directory entry: a readable file with its content, or an entry that
\* cannot be opened or read.
Files == {[readable |-> TRUE, content |-> c] : c \in Contents}
           \cup {[readable |-> FALSE, content |-> <<>>]}

\* The four label directories of the archive, relative to the extraction root.
SubdirPaths == { <<"aclImdb", s, l>> : s \in {"train", "test"}, l \in {"pos", "neg"} }

AbsentDir == [exists |-> FALSE, files |-> <<>>]

\* The states a label directory with k entries can be in (absent only if k = 0).
DirOf(k) == {[exists |-> TRUE, files |-> f] : f \in [1..k -> Files]}
              \cup (IF k = 0 THEN {AbsentDir} ELSE {})

(***************************************************************************)
(* BUILDER_CONFIGS                                                         *)
(***************************************************************************)
ConfigNames == {"plain_text", "bytes", "subwords8k", "subwords32k"}

\* encoder_cls=tfds.features.text.SubwordTextEncoder
IsSubword(cfg) == cfg \in {"subwords8k", "subwords32k"}

VARIABLES
  corpus,      \* the archive's content: SubdirPaths -> directory state
  config,      \* name of the active builder config
  pc,          \* position of _split_generators
  imdb_path,   \* result of dl_manager.download_and_extract
  buildCalls,  \* number of calls of maybe_build_from_corpus
  feeders,     \* number of _vocab_text_gen generator objects created
  feederOut,   \* the values the Feeder has yielded to maybe_build_from_corpus
  vocabBuilt,  \* the text feature holds a learned subword vocabulary
  splits,      \* the list returned by _split_generators
  gen,         \* the _generate_examples generator objects
  openFiles,   \* the file handles that are open
  encodeCalls  \* number of calls of features.encode_example

vars == <<corpus, config, pc, imdb_path, buildCalls, feeders, feederOut,
          vocabBuilt, splits, gen, openFiles, encodeCalls>>

\* The _generate_examples generator objects: the one the Feeder iterates,
\* and those of the framework's calls.
VocabRun == 0
SplitRuns == 1..MaxRuns
Runs == {VocabRun} \cup SplitRuns

(***************************************************************************)
(* os.path.join                                                            *)
(***************************************************************************)
Join(path, name) == Append(path, name)

\* Mutant: the archive's top-level directory is left out of the path.
TrainDir_NoArchiveDir(root) == Join(<<root>>, "train")

\* os.path.join(imdb_path, "aclImdb", "train")
TrainDir(root) == Join(Join(<<root>>, "aclImdb"), "train")

\* os.path.join(imdb_path, "aclImdb", "test")
TestDir(root) == Join(Join(<<root>>, "aclImdb"), "test")


\* num_shards=10
NumShards == 10

\* The list _split_generators returns.
SplitList(root) ==
  << [name |-> "train", num_shards |-> NumShards, directory |-> TrainDir(root)],
     [name |-> "test",  num_shards |-> NumShards, directory |-> TestDir(root)] >>

(***************************************************************************)
(* The file system under the extraction root (tf.gfile).                   *)
(***************************************************************************)
\* The archive is extracted under imdb_path and nowhere else.
DirExists(d) ==
  /\ Len(d) = 4
  /\ d[1] = imdb_path
  /\ Tail(d) \in SubdirPaths
  /\ corpus[Tail(d)].exists

\* Mutant: a directory that does not exist lists as empty.
ListDirectory_MissingIsEmpty(d) ==
  [ok |-> TRUE,
   names |-> IF DirExists(d)
               THEN [i \in 1..Len(corpus[Tail(d)].files) |-> ToString(i)]
               ELSE <<>>]

\* tf.gfile.ListDirectory(d): the names of the entries, in listing order, or
\* NotFoundError when d does not exist.
ListDirectory(d) ==
  IF DirExists(d)
    THEN [ok |-> TRUE, names |-> [i \in 1..Len(corpus[Tail(d)].files) |-> ToString(i)]]
    ELSE [ok |-> FALSE, names |-> <<>>]

\* The entry a file path names.
FileAt(path) ==
  LET entries == corpus[SubSeq(path, 2, 4)].files
      i == CHOOSE k \in 1..Len(entries) : ToString(k) = path[5]
  IN  entries[i]

\* Mutant: an I/O error is swallowed and the file reads as empty.
OpenAndRead_Swallow(path) == [ok |-> TRUE, content |-> FileAt(path).content]

\* tf.gfile.Open(path) and imdb_f.read(): the content, or an I/O error.
OpenAndRead(path) ==
  IF FileAt(path).readable
    THEN [ok |-> TRUE, content |-> FileAt(path).content]
    ELSE [ok |-> FALSE, content |-> <<>>]

(***************************************************************************)
(* str.strip()                                                             *)
(***************************************************************************)
RECURSIVE LStrip(_)
LStrip(s) ==
  IF s = <<>> THEN s
  ELSE IF Head(s) \in Whitespace THEN LStrip(Tail(s)) ELSE s

RECURSIVE RStrip(_)
RStrip(s) ==
  IF s = <<>> THEN s
  ELSE IF s[Len(s)] \in Whitespace THEN RStrip(SubSeq(s, 1, Len(s) - 1)) ELSE s

\* Mutant: only trailing whitespace is removed (rstrip).
Strip_RightOnly(s) == RStrip(s)

Strip(s) == RStrip(LStrip(s))

(***************************************************************************)
(* self.info.features.encode_example: an external call.  Its result is a   *)
(* record with the keys of the feature dictionary ("text", "label"); each  *)
(* value is determined by the feature's encoder and the value handed in.   *)
(* Nothing else is assumed about it: the result is the application term.   *)
(***************************************************************************)
\* The encoder of the "text" feature when encode_example is called.
TextEncoder ==
  IF config = "plain_text" THEN "none"
  ELSE IF config = "bytes" THEN "ByteTextEncoder"
  ELSE IF vocabBuilt THEN "SubwordTextEncoder"
  ELSE "SubwordTextEncoder(not built)"

EncodeExample(fields) ==
  [ text  |-> [encoder |-> TextEncoder, arg |-> fields.text],
    label |-> [encoder |-> "ClassLabel", arg |-> fields.label] ]

(***************************************************************************)
(* _generate_examples                                                      *)
(***************************************************************************)
\* Mutant: the labels of the two directories are exchanged.
LabelDirs_Swapped(directory) ==
  << [d |-> Join(directory, "pos"), label |-> "neg"],
     [d |-> Join(directory, "neg"), label |-> "pos"] >>

\* [(pos_dir, "pos"), (neg_dir, "neg")]
LabelDirs(directory) ==
  << [d |-> Join(directory, "pos"), label |-> "pos"],
     [d |-> Join(directory, "neg"), label |-> "neg"] >>

NoGenerator ==
  [status |-> "unstarted", directory |-> <<>>, phase |-> 1, idx |-> 0,
   out |-> <<>>, error |-> ""]

\* Mutant: the position in the listing is shared between runs, so a run
\* starts behind the entries an earlier run has consumed.
NewGenerator_SharedCursor(directory) ==
  [status |-> "created", directory |-> directory, phase |-> 1,
   idx |-> IF \E r \in Runs : gen[r].directory = directory /\ gen[r].phase = 1
                               /\ gen[r].idx > 0
             THEN 1 ELSE 0,
   out |-> <<>>, error |-> ""]

\* Calling _generate_examples(directory) creates a generator object; no line
\* of the body has run.
NewGenerator(directory) ==
  [status |-> "created", directory |-> directory, phase |-> 1, idx |-> 0,
   out |-> <<>>, error |-> ""]

\* The two nested for loops, from the position after entry idx of the
\* listing of label directory phase: the next entry to process, the end of
\* the loops, or the exception that ends them.
RECURSIVE Advance(_, _, _)
Advance(directory, phase, idx) ==
  LET d == LabelDirs(directory)[phase].d
      listing == ListDirectory(d)
  IN  IF ~listing.ok
        THEN [kind |-> "error", error |-> "NotFoundError", phase |-> phase, idx |-> idx]
      ELSE IF idx < Len(listing.names)
        THEN IF OpenAndRead(Join(d, listing.names[idx + 1])).ok
               THEN [kind |-> "yield", error |-> "", phase |-> phase, idx |-> idx + 1]
               ELSE [kind |-> "error", error |-> "IOError", phase |-> phase, idx |-> idx + 1]
      ELSE IF phase < Len(LabelDirs(directory))
        THEN Advance(directory, phase + 1, 0)
      ELSE [kind |-> "stop", error |-> "", phase |-> phase, idx |-> idx]

\* The path of the file the generator of run r has bound to imdb_f.
CurrentFile(g) ==
  Join(LabelDirs(g.directory)[g.phase].d, ToString(g.idx))

\* Mutant: the file is not closed when the block is left.
ExitWith_Leak(r, handles) == handles

\* Leaving the with block (on resumption after the yield, on an exception,
\* on close()): the file of run r is closed.
ExitWith(r, handles) == {h \in handles : h.run # r}

\* One pull of generator g (next()): the body runs to the next yield, to its
\* end or to an exception.
Resume(g) ==
  LET res == Advance(g.directory, g.phase, g.idx)
      d == LabelDirs(g.directory)[res.phase]
      text == Strip(OpenAndRead(Join(d.d, ToString(res.idx))).content)
  IN  IF res.kind = "yield"
        THEN [g EXCEPT !.status = "suspended", !.phase = res.phase, !.idx = res.idx,
                       !.out = Append(@, EncodeExample([text |-> text, label |-> d.label]))]
      ELSE IF res.kind = "stop"
        THEN [g EXCEPT !.status = "done", !.phase = res.phase, !.idx = res.idx]
      ELSE [g EXCEPT !.status = "error", !.error = res.error,
                     !.phase = res.phase, !.idx = res.idx]

\* The effect of one pull of generator g of run r on the generator, the open
\* files and the count of encode_example calls.
GenPull(r, g) ==
  /\ g.status \in {"created", "suspended"}
  /\ gen' = [gen EXCEPT ![r] = Resume(g)]
  /\ openFiles' = ExitWith(r, openFiles) \cup
       (IF gen'[r].status = "suspended"
          THEN {[run |-> r, path |-> CurrentFile(gen'[r])]}
          ELSE {})
  /\ encodeCalls' = encodeCalls + (IF gen'[r].status = "suspended" THEN 1 ELSE 0)

(***************************************************************************)
(* _vocab_text_gen and _split_generators                                   *)
(***************************************************************************)
\* Mutant: the Feeder yields the other field.
FeederYield_Label(ex) == ex.label

\* yield ex["text"]
FeederYield(ex) == ex.text

\* Mutant: the vocabulary is never built.
MaybeBuildScans_Never(cfg) == FALSE

\* "Generate vocabulary from training data if SubwordTextEncoder configured":
\* maybe_build_from_corpus iterates the corpus generator to its end, and
\* learns the vocabulary, exactly when the encoder class is the subword one.
MaybeBuildScans(cfg) == IsSubword(cfg)

\* Mutant: the call is made only under a subword configuration.
CallsMaybeBuild_OnlySubword(cfg) == IsSubword(cfg)

\* _split_generators calls maybe_build_from_corpus(self._vocab_text_gen(...))
\* on every path.
CallsMaybeBuild(cfg) == TRUE

Init ==
  /\ \E np, nn \in 0..MaxFiles :
       /\ np + nn <= MaxFiles
       /\ \E a \in DirOf(np), b \in DirOf(nn) :
            corpus = (<<"aclImdb", "train", "pos">> :> a) @@ (<<"aclImdb", "train", "neg">> :> b)
                       @@ (<<"aclImdb", "test", "pos">> :> b) @@ (<<"aclImdb", "test", "neg">> :> a)
  /\ config \in ConfigNames
  /\ pc = "start"
  /\ imdb_path = ""
  /\ buildCalls = 0
  /\ feeders = 0
  /\ feederOut = <<>>
  /\ vocabBuilt = FALSE
  /\ splits = <<>>
  /\ gen = [r \in Runs |-> NoGenerator]
  /\ openFiles = {}
  /\ encodeCalls = 0

\* imdb_path = dl_manager.download_and_extract(_DOWNLOAD_URL)
DownloadAndExtract(root) ==
  /\ pc = "start"
  /\ imdb_path' = root
  /\ pc' = "extracted"
  /\ UNCHANGED <<corpus, config, buildCalls, feeders, feederOut, vocabBuilt,
                 splits, gen, openFiles, encodeCalls>>

\* train_dir, test_dir; self._vocab_text_gen(train_dir) creates the Feeder's
\* generator object (no line of its body runs); the call of
\* maybe_build_from_corpus begins.
CallMaybeBuild ==
  /\ pc = "extracted"
  /\ IF CallsMaybeBuild(config)
       THEN /\ buildCalls' = buildCalls + 1
            /\ feeders' = feeders + 1
       ELSE UNCHANGED <<buildCalls, feeders>>
  /\ pc' = "building"
  /\ UNCHANGED <<corpus, config, imdb_path, feederOut, vocabBuilt, splits,
                 gen, openFiles, encodeCalls>>

\* maybe_build_from_corpus pulls the next text from the Feeder, which (having
\* called _generate_examples(train_dir) at its first pull) pulls the next
\* example and yields its "text".  An exception of the generator passes
\* through the Feeder, through maybe_build_from_corpus and out of
\* _split_generators.
FeederPull ==
  /\ pc = "building"
  /\ MaybeBuildScans(config)
  /\ GenPull(VocabRun, IF gen[VocabRun].status = "unstarted"
                         THEN NewGenerator(TrainDir(imdb_path))
                         ELSE gen[VocabRun])
  /\ feederOut' = IF gen'[VocabRun].status = "suspended"
                    THEN Append(feederOut, FeederYield(gen'[VocabRun].out[Len(gen'[VocabRun].out)]))
                    ELSE feederOut
  /\ pc' = IF gen'[VocabRun].status = "error" THEN "failed" ELSE pc
  /\ UNCHANGED <<corpus, config, imdb_path, buildCalls, feeders, vocabBuilt, splits>>

\* maybe_build_from_corpus returns (having learned the vocabulary if it
\* scanned the corpus) and _split_generators returns the two SplitGenerators.
SplitGeneratorsReturn ==
  /\ pc = "building"
  /\ \/ ~MaybeBuildScans(config)
     \/ gen[VocabRun].status = "done"
  /\ vocabBuilt' = (MaybeBuildScans(config) /\ gen[VocabRun].status = "done")
  /\ splits' = SplitList(imdb_path)
  /\ pc' = "returned"
  /\ UNCHANGED <<corpus, config, imdb_path, buildCalls, feeders, feederOut,
                 gen, openFiles, encodeCalls>>

\* The framework calls _generate_examples(**gen_kwargs) of a split.  It
\* iterates one generator at a time: a further call is made when the earlier
\* generators have ended or have been closed.
StartRun(r, s) ==
  /\ pc = "returned"
  /\ gen[r].status = "unstarted"
  /\ \A q \in SplitRuns : q < r => gen[q].status \in {"done", "error", "closed"}
  /\ gen' = [gen EXCEPT ![r] = NewGenerator(splits[s].directory)]
  /\ UNCHANGED <<corpus, config, pc, imdb_path, buildCalls, feeders, feederOut,
                 vocabBuilt, splits, openFiles, encodeCalls>>

\* The framework pulls the next example of a run.
Pull(r) ==
  /\ pc = "returned"
  /\ GenPull(r, gen[r])
  /\ UNCHANGED <<corpus, config, pc, imdb_path, buildCalls, feeders, feederOut,
                 vocabBuilt, splits>>

\* The consumer has stopped iterating and the generator is closed
\* (generator.close(), or its finalisation): GeneratorExit is raised at the
\* yield and the with block is left.
Close(r) ==
  /\ pc = "returned"
  /\ gen[r].status \in {"created", "suspended"}
  /\ gen' = [gen EXCEPT ![r].status = "closed"]
  /\ openFiles' = ExitWith(r, openFiles)
  /\ UNCHANGED <<corpus, config, pc, imdb_path, buildCalls, feeders, feederOut,
                 vocabBuilt, splits, encodeCalls>>

Next ==
  \/ \E root \in Roots : DownloadAndExtract(root)
  \/ CallMaybeBuild
  \/ FeederPull
  \/ SplitGeneratorsReturn
  \/ \E r \in SplitRuns, s \in 1..Len(splits) : StartRun(r, s)
  \/ \E r \in SplitRuns : Pull(r)
  \/ \E r \in SplitRuns : Close(r)

Spec == Init /\ [][Next]_vars

(***************************************************************************)
(* The same builder with one extraction root and one configuration of each *)
(* kind of encoder (none, learned vocabulary): the specification under     *)
(* which the properties of _generate_examples alone are checked.           *)
(***************************************************************************)
GeneratorConfigs == {"plain_text", "subwords8k"}

GeneratorRoot == "/tmp/dl1"

GeneratorInit == Init /\ config \in GeneratorConfigs

GeneratorNext ==
  \/ DownloadAndExtract(GeneratorRoot)
  \/ CallMaybeBuild
  \/ FeederPull
  \/ SplitGeneratorsReturn
  \/ \E r \in SplitRuns, s \in 1..Len(splits) : StartRun(r, s)
  \/ \E r \in SplitRuns : Pull(r)
  \/ \E r \in SplitRuns : Close(r)

GeneratorSpec == GeneratorInit /\ [][GeneratorNext]_vars


(***************************************************************************)
(* What the corpus holds, read off the corpus itself (not through the      *)
(* generator): used to state the properties below.                         *)
(***************************************************************************)
Started(r) == gen[r].status # "unstarted"

\* The state of label directory l of the split directory run r was given.
LabelDirOf(r, l) == corpus[<<gen[r].directory[2], gen[r].directory[3], l>>]

PosFiles(r) == LabelDirOf(r, "pos").files
NegFiles(r) == LabelDirOf(r, "neg").files

\* Number of entries under "pos" and "neg" together.
NumEntries(r) == Len(PosFiles(r)) + Len(NegFiles(r))

\* The i-th entry of the entries under "pos" followed by those under "neg",
\* each in listing order, with the label of its directory.
EntryAt(r, i) ==
  LET pos == PosFiles(r) IN
  IF i <= Len(pos)
    THEN [label |-> "pos", file |-> pos[i]]
    ELSE [label |-> "neg", file |-> NegFiles(r)[i - Len(pos)]]

\* The positions of c that hold a character other than whitespace.
NonWhitespace(c) == {k \in 1..Len(c) : c[k] \notin Whitespace}

\* t is c without its leading and trailing whitespace: the part of c from
\* its first to its last character that is not whitespace, empty if c has
\* none.
IsStripOf(t, c) ==
  LET ks == NonWhitespace(c) IN
  IF ks = {} THEN t = <<>>
  ELSE t = SubSeq(c, CHOOSE k \in ks : \A j \in ks : k <= j,
                     CHOOSE k \in ks : \A j \in ks : k >= j)

\* The raw example (text, label) that yielded element ex was encoded from.
Raw(ex) == [text |-> ex.text.arg, label |-> ex.label.arg]

RawOut(r) == [i \in 1..Len(gen[r].out) |-> Raw(gen[r].out[i])]

\* Number of entries in processing order before the first point at which
\* the layout makes the generator fail, and how generation ends there.
FirstUnreadable(files) ==
  IF \E i \in 1..Len(files) : ~files[i].readable
    THEN CHOOSE i \in 1..Len(files) :
           ~files[i].readable /\ \A k \in 1..(i - 1) : files[k].readable
    ELSE 0

Outcome(r) ==
  LET pos == LabelDirOf(r, "pos")
      neg == LabelDirOf(r, "neg")
      up == FirstUnreadable(pos.files)
      un == FirstUnreadable(neg.files)
  IN  IF ~pos.exists THEN [count |-> 0, end |-> "NotFoundError"]
      ELSE IF up > 0 THEN [count |-> up - 1, end |-> "IOError"]
      ELSE IF ~neg.exists THEN [count |-> Len(pos.files), end |-> "NotFoundError"]
      ELSE IF un > 0 THEN [count |-> Len(pos.files) + un - 1, end |-> "IOError"]
      ELSE [count |-> Len(pos.files) + Len(neg.files), end |-> "stop"]

HandlesOf(r) == {h \in openFiles : h.run = r}

(***************************************************************************)
(* C1                                                                      *)
(***************************************************************************)
\* C1: a run of _generate_examples that completes over a directory with N
\* entries under "pos" and M under "neg" has yielded exactly N+M examples;
\* at every moment the i-th example yielded was made from the i-th entry in
\* the order pos-then-neg (its text is that file's content stripped) and
\* carries that entry's label, so the first N are labelled pos, the
\* remaining M neg, and no other label occurs.
C1_CountOrderLabels ==
  \A r \in Runs :
    Started(r) =>
      /\ Len(gen[r].out) <= NumEntries(r)
      /\ \A i \in 1..Len(gen[r].out) :
           LET ex == Raw(gen[r].out[i])
               entry == EntryAt(r, i)
           IN  /\ ex.label = entry.label
               /\ ex.label \in {"pos", "neg"}
               /\ (i <= Len(PosFiles(r))) <=> (ex.label = "pos")
               /\ IsStripOf(ex.text, entry.file.content)
      /\ gen[r].status = "done" => Len(gen[r].out) = Len(PosFiles(r)) + Len(NegFiles(r))

\* A completed run over a directory with one entry under each label.
C1_Witness ==
  \E r \in SplitRuns :
    /\ gen[r].status = "done"
    /\ Len(PosFiles(r)) = 1 /\ Len(NegFiles(r)) = 1
    /\ Len(gen[r].out) = 2
    /\ Raw(gen[r].out[1]).label = "pos" /\ Raw(gen[r].out[2]).label = "neg"

(***************************************************************************)
(* C2                                                                      *)
(***************************************************************************)
\* C2 as claimed: when _split_generators has returned, maybe_build_from_corpus
\* has been invoked once under a subword configuration and not at all under
\* plain_text or bytes.
C2_Original ==
  pc = "returned" => buildCalls = (IF IsSubword(config) THEN 1 ELSE 0)

\* C2, amended: _split_generators invokes maybe_build_from_corpus exactly
\* once, with one freshly created Feeder, under every configuration; under
\* plain_text and bytes the Feeder handed over is never iterated, under a
\* subword configuration it has been iterated to its end when
\* _split_generators returns.
C2_BuildInvokedOnceAlways ==
  /\ pc \in {"start", "extracted"} => (buildCalls = 0 /\ feeders = 0)
  /\ pc \in {"building", "returned", "failed"} => (buildCalls = 1 /\ feeders = 1)
  /\ ~IsSubword(config) => (gen[VocabRun].status = "unstarted" /\ feederOut = <<>>)
  /\ (IsSubword(config) /\ pc = "returned") => gen[VocabRun].status = "done"

\* _split_generators has returned under plain_text, having made the call.
C2_Witness ==
  pc = "returned" /\ config = "plain_text" /\ buildCalls = 1

(***************************************************************************)
(* C3                                                                      *)
(***************************************************************************)
\* C3 as claimed: the two descriptors point at <root>/train and <root>/test.
C3_Original ==
  pc = "returned" =>
    /\ Len(splits) = 2
    /\ splits[1] = [name |-> "train", num_shards |-> 10, directory |-> <<imdb_path, "train">>]
    /\ splits[2] = [name |-> "test", num_shards |-> 10, directory |-> <<imdb_path, "test">>]

\* C3, amended: for every extraction root and every configuration,
\* _split_generators returns exactly two descriptors, train then test, each
\* with shard count 10, whose directories are <root>/aclImdb/train and
\* <root>/aclImdb/test; nothing is returned before.
C3_TwoSplitsUnderArchiveDir ==
  /\ pc = "returned" =>
       /\ imdb_path \in Roots
       /\ Len(splits) = 2
       /\ splits[1] = [name |-> "train", num_shards |-> 10,
                       directory |-> <<imdb_path, "aclImdb", "train">>]
       /\ splits[2] = [name |-> "test", num_shards |-> 10,
                       directory |-> <<imdb_path, "aclImdb", "test">>]
  /\ pc # "returned" => splits = <<>>

\* _split_generators has returned for the second root under a subword config.
C3_Witness ==
  pc = "returned" /\ imdb_path = "/tmp/dl2" /\ config = "subwords32k" /\ Len(splits) = 2

(***************************************************************************)
(* C4                                                                      *)
(***************************************************************************)
\* C4: at every moment the sequence the Feeder has yielded is, element by
\* element and with the same length, the sequence of "text" fields of the
\* elements its _generate_examples(directory) has yielded; when the Feeder
\* is exhausted that is one text per entry of the directory, in processing
\* order, and a completed run of _generate_examples over the same directory
\* yields examples made from the same texts in the same order.
C4_FeederIsTextProjection ==
  /\ Len(feederOut) = Len(gen[VocabRun].out)
  /\ \A i \in 1..Len(feederOut) : feederOut[i] = gen[VocabRun].out[i].text
  /\ gen[VocabRun].status = "done" =>
       /\ Len(feederOut) = NumEntries(VocabRun)
       /\ \A i \in 1..Len(feederOut) :
            IsStripOf(feederOut[i].arg, EntryAt(VocabRun, i).file.content)
       /\ \A r \in SplitRuns :
            (gen[r].status = "done" /\ gen[r].directory = gen[VocabRun].directory) =>
               /\ Len(gen[r].out) = Len(feederOut)
               /\ \A i \in 1..Len(feederOut) : gen[r].out[i].text.arg = feederOut[i].arg

\* The Feeder has been exhausted over two files and a run over the same
\* directory has completed.
C4_Witness ==
  /\ gen[VocabRun].status = "done"
  /\ Len(feederOut) = 2
  /\ \E r \in SplitRuns :
       gen[r].status = "done" /\ gen[r].directory = gen[VocabRun].directory

C6_UnreadableFileAborts ==
  \A r \in Runs :
    (Started(r) /\ Outcome(r).end = "IOError") =>
      /\ gen[r].status # "done"
      /\ gen[r].status = "error" =>
           /\ gen[r].error = "IOError"
           /\ Len(gen[r].out) = Outcome(r).count
           /\ HandlesOf(r) = {}
      /\ gen[r].status # "error" => Len(gen[r].out) <= Outcome(r).count
      /\ (r = VocabRun /\ gen[r].status = "error") =>
           (pc = "failed" /\ ~vocabBuilt /\ splits = <<>>)
      /\ (r = VocabRun /\ IsSubword(config)) => pc # "returned"

\* A run has ended in the I/O error at the second file, after yielding the
\* example of the first.
C6_Witness ==
  \E r \in SplitRuns :
    /\ gen[r].status = "error" /\ gen[r].error = "IOError"
    /\ Outcome(r) = [count |-> 1, end |-> "IOError"]
    /\ Len(gen[r].out) = 1

(***************************************************************************)
(* C7                                                                      *)
(***************************************************************************)
\* C7 as claimed: when "pos" or "neg" is absent, generation yields no example
\* and does not complete.
C7_Original ==
  \A r \in Runs :
    (Started(r) /\ (~LabelDirOf(r, "pos").exists \/ ~LabelDirOf(r, "neg").exists)) =>
      (Len(gen[r].out) = 0 /\ gen[r].status # "done")

\* C7, amended: when "pos" is absent the first pull fails and no example is
\* ever yielded; when only "neg" is absent the examples of the entries under
\* "pos" are yielded first (up to an unreadable one) and the pull after the
\* last of them fails.  In both cases generation never completes normally
\* (the missing directory is not treated as empty or skipped), the error ends
\* the run, and raised inside the Feeder it makes _split_generators fail.
C7_MissingLabelDirFails ==
  \A r \in Runs :
    (Started(r) /\ (~LabelDirOf(r, "pos").exists \/ ~LabelDirOf(r, "neg").exists)) =>
      /\ gen[r].status # "done"
      /\ gen[r].status # "error" => Len(gen[r].out) <= Outcome(r).count
      /\ ~LabelDirOf(r, "pos").exists =>
           (Len(gen[r].out) = 0 /\ gen[r].status \in {"created", "error", "closed"})
      /\ gen[r].status = "error" =>
           /\ gen[r].error = Outcome(r).end
           /\ Len(gen[r].out) = Outcome(r).count
           /\ HandlesOf(r) = {}
      /\ (r = VocabRun /\ gen[r].status = "error") => (pc = "failed" /\ splits = <<>>)

\* "neg" is absent, "pos" holds one readable file: the run has yielded its
\* example and then failed on the missing directory.
C7_Witness ==
  \E r \in SplitRuns :
    /\ gen[r].status = "error" /\ gen[r].error = "NotFoundError"
    /\ ~LabelDirOf(r, "neg").exists /\ LabelDirOf(r, "pos").exists
    /\ Len(gen[r].out) = 1

C9_Original ==
  \A r \in Runs :
    /\ Cardinality(HandlesOf(r)) <= 1
    /\ gen[r].status = "suspended" => HandlesOf(r) = {}

\* C9, amended: a run holds at most one file open.  While its generator is
\* suspended at a yield (the yield is inside the with block) exactly the file
\* of the example just yielded is open; it is closed when the generator is
\* resumed by the next pull or closed, and no file of the run is open before
\* its first pull, after it has completed, failed or been closed.
C9_OneFileOpenAcrossYield ==
  \A r \in Runs :
    /\ Cardinality(HandlesOf(r)) <= 1
    /\ gen[r].status = "suspended" =>
         HandlesOf(r) = {[run |-> r, path |-> CurrentFile(gen[r])]}
    /\ gen[r].status # "suspended" => HandlesOf(r) = {}

\* A run is suspended at the yield of its second example, with the second
\* file (and only it) open.
C9_Witness ==
  \E r \in SplitRuns :
    /\ gen[r].status = "suspended"
    /\ Len(gen[r].out) = 2
    /\ gen[r].phase = 1 /\ gen[r].idx = 2
    /\ Cardinality(HandlesOf(r)) = 1

(***************************************************************************)
(* C10                                                                     *)
(***************************************************************************)
\* C10 as claimed: under a subword configuration encode_example is not called
\* before the vocabulary has been learned, and the texts the Feeder supplies
\* are not outputs of encode_example.
C10_Original ==
  IsSubword(config) =>
    /\ ~vocabBuilt => encodeCalls = 0
    /\ \A i \in 1..Len(feederOut) :
         \A r \in Runs : \A k \in 1..Len(gen[r].out) : feederOut[i] # gen[r].out[k].text

RECURSIVE SumOut(_)
SumOut(rs) ==
  IF rs = {} THEN 0
  ELSE LET r == CHOOSE x \in rs : TRUE IN Len(gen[r].out) + SumOut(rs \ {r})

\* C10, amended: encode_example is called once for every example yielded,
\* those of the Feeder's scan included: under a subword configuration the
\* Feeder's texts are the "text" fields of results of encode_example obtained
\* before the vocabulary is built.  The vocabulary is built only when that
\* scan has ended, before _split_generators returns; no run of a split starts
\* before, so every example of a split is encoded with the built vocabulary.
C10_VocabularyBeforeSplitEncoding ==
  /\ encodeCalls = SumOut(Runs)
  /\ pc # "returned" => (~vocabBuilt /\ \A r \in SplitRuns : ~Started(r))
  /\ vocabBuilt => (IsSubword(config) /\ gen[VocabRun].status = "done")
  /\ IsSubword(config) =>
       /\ pc = "returned" => vocabBuilt
       /\ \A i \in 1..Len(feederOut) :
            /\ feederOut[i] = gen[VocabRun].out[i].text
            /\ feederOut[i].encoder = "SubwordTextEncoder(not built)"
       /\ \A r \in SplitRuns : \A i \in 1..Len(gen[r].out) :
            gen[r].out[i].text.encoder = "SubwordTextEncoder"

\* Under a subword configuration the scan has made two encode_example calls,
\* the vocabulary is built, and a run of a split has yielded an example.
C10_Witness ==
  /\ IsSubword(config) /\ vocabBuilt
  /\ Len(feederOut) = 2
  /\ \E r \in SplitRuns : Len(gen[r].out) = 1
  /\ encodeCalls = 3

====
